---- MODULE Spec2Model ----
(***************************************************************************)
(* ST7735 TFT display driver (src/stmhal/ST7735.c): the display object,    *)
(* the bus protocol layer, the drawing primitives and the panel            *)
(* initialisation routines, as a state machine whose steps are the calls   *)
(* of the driver's public methods.                                         *)
(*                                                                         *)
(* self  the pyb_tft_obj_t (size, rotate, rgb), the levels of its three    *)
(*       control pins, and bus: the events the last call put on the wires, *)
(*       in order.  An event is a pin write, a one byte transmit, a delay, *)
(*       or a "txrun": the n iterations of a colour loop, each             *)
(*       transmitting hi then lo.  Every bus routine is the sequence of    *)
(*       events it emits; the pin levels follow from the pin writes.       *)
(* op    the last call: its name, its arguments, what it returned, and hal, *)
(*       the status the transport gave its transmits.                      *)
(* pre   self as it was when the last call began (bus emptied).            *)
(* hist  when the last call and the one before it were both display-state  *)
(*       or initialisation calls (the earlier one may be the construction):*)
(*       the earlier call's name and the size and                          *)
(*       rotation it started from; otherwise NoHist.                       *)
(* spi   the status HAL_SPI_Transmit returns at present.                   *)
(* lcd   the controller's side of the bus: madctl, the payload of the last *)
(*       MADCTL write it received since construction (NoMADCTL before the  *)
(*       first), and inited, whether an initialisation has completed.      *)
(***************************************************************************)
EXTENDS Integers, Sequences, FiniteSets

VARIABLES self, op, pre, hist, spi, lcd

vars == <<self, op, pre, hist, spi, lcd>>

----------------------------------------------------------------------------
(* Command codes and tables. *)

ST_SWRESET == 1
ST_SLPOUT == 17
ST_NORON == 19
ST_INVOFF == 32
ST_DISPON == 41
ST_CASET == 42
ST_RASET == 43
ST_RAMWR == 44
ST_COLMOD == 58
ST_MADCTL == 54
ST_FRMCTR1 == 177
ST_FRMCTR2 == 178
ST_FRMCTR3 == 179
ST_INVCTR == 180
ST_DISSET5 == 182
ST_PWCTR1 == 192
ST_PWCTR2 == 193
ST_PWCTR3 == 194
ST_PWCTR4 == 195
ST_PWCTR5 == 196
ST_VMCTR1 == 197
ST_PWCTR6 == 252
ST_GMCTRP1 == 224
ST_GMCTRN1 == 225

\* TFTRotations[] is indexed from 0 in the source.
TFTRotations == <<0, 96, 192, 160>>
TFTBGR == 8
TFTRGB == 0

\* A C byte: the value modulo 2^8.
Byte(v) == v % 256

\* a | b, a & b, a << n and a >> n on non-negative ints.
RECURSIVE BitOr(_, _)
BitOr(a, b) ==
    IF a = 0 THEN b
    ELSE IF b = 0 THEN a
    ELSE (IF a % 2 = 1 \/ b % 2 = 1 THEN 1 ELSE 0) + 2 * BitOr(a \div 2, b \div 2)

RECURSIVE BitAnd(_, _)
BitAnd(a, b) ==
    IF a = 0 \/ b = 0 THEN 0
    ELSE (IF a % 2 = 1 /\ b % 2 = 1 THEN 1 ELSE 0) + 2 * BitAnd(a \div 2, b \div 2)

Shl(a, n) == a * (2 ^ n)

Shr(a, n) == a \div (2 ^ n)

----------------------------------------------------------------------------
(* The transport and the control lines. *)

GPIO_set_pin(pin) == <<[k |-> "pin", pin |-> pin, v |-> 1]>>

GPIO_clear_pin(pin) == <<[k |-> "pin", pin |-> pin, v |-> 0]>>

HAL_Delay(ms) == <<[k |-> "delay", ms |-> ms]>>

\* One byte on the wire.  The call returns the transport's status (spi), and
\* every caller discards it: the events do not depend on it.
\* reg is not on the wire: it records which register the caller addresses,
\* "command" from _writecommand, "data" from every other caller.
HAL_SPI_Transmit(b, reg) == <<[k |-> "tx", b |-> Byte(b), reg |-> reg]>>

\* for (i = 0; i < n; ++i) { transmit hi; transmit lo; } as one run-length event.
ColorLoop(n, hi, lo) ==
    IF n > 0
    THEN <<[k |-> "txrun", hi |-> Byte(hi), lo |-> Byte(lo), n |-> n,
            reg |-> "data"]>>
    ELSE <<>>

\* Faulty variant, for sensitivity of the property: the reset line is not held low.
reset_mut ==
    GPIO_clear_pin("dc") \o GPIO_set_pin("rst") \o HAL_Delay(500)
    \o GPIO_clear_pin("rst") \o GPIO_set_pin("rst")

reset ==
    GPIO_clear_pin("dc") \o GPIO_set_pin("rst") \o HAL_Delay(500)
    \o GPIO_clear_pin("rst") \o HAL_Delay(500) \o GPIO_set_pin("rst")

writecommand(command) ==
    GPIO_clear_pin("cs") \o GPIO_clear_pin("dc")
    \o HAL_SPI_Transmit(command, "command") \o GPIO_set_pin("cs")

\* Faulty variant, for sensitivity of the property: the data/command line is left as it was.
writedata_mut(data_in) ==
    GPIO_clear_pin("cs")
    \o [i \in 1 .. Len(data_in) |-> HAL_SPI_Transmit(data_in[i], "data")[1]]
    \o GPIO_set_pin("cs")

\* data_in is the sequence of the count bytes sent, one transmit each.
writedata(data_in) ==
    GPIO_clear_pin("cs") \o GPIO_set_pin("dc")
    \o [i \in 1 .. Len(data_in) |-> HAL_SPI_Transmit(data_in[i], "data")[1]]
    \o GPIO_set_pin("cs")

setMADCTL(s) ==
    LET rgb == IF s.rgb # 0 THEN TFTRGB ELSE TFTBGR
        data == BitOr(TFTRotations[s.rotate + 1], rgb)
    IN  writecommand(ST_MADCTL) \o writedata(<<data>>)

\* Faulty variant, for sensitivity of the property: the start pair goes to the column command, the end pair to the row command.
setwindowloc_mut(sx, sy, ex, ey) ==
    writecommand(ST_CASET) \o writedata(<<0, Byte(sx), 0, Byte(sy)>>)
    \o writecommand(ST_RASET) \o writedata(<<0, Byte(ex), 0, Byte(ey)>>)
    \o writecommand(ST_RAMWR)

\* The four parameters are bytes: the caller's ints are truncated.
setwindowloc(sx, sy, ex, ey) ==
    writecommand(ST_CASET) \o writedata(<<0, Byte(sx), 0, Byte(ex)>>)
    \o writecommand(ST_RASET) \o writedata(<<0, Byte(sy), 0, Byte(ey)>>)
    \o writecommand(ST_RAMWR)

absint(v) == IF v < 0 THEN -v ELSE v

clamp(min, max, value) ==
    IF value < min THEN min ELSE IF value > max THEN max ELSE value

\* Faulty variant, for sensitivity of the property: the colour is sent to whatever window is set.
pixel_mut(s, x, y, colorA) ==
    IF 0 <= x /\ x < s.size[1] /\ 0 <= y /\ y < s.size[2]
    THEN writedata(colorA)
    ELSE <<>>

\* colorA is the pair <<hi, lo>>.
pixel(s, x, y, colorA) ==
    IF 0 <= x /\ x < s.size[1] /\ 0 <= y /\ y < s.size[2]
    THEN setwindowloc(x, y, x + 1, y + 1) \o writedata(colorA)
    ELSE <<>>

\* byte colorA[] = { color >> 8, color }
ColorA(color) == <<Byte(color \div 256), Byte(color)>>

\* Faulty variant, for sensitivity of the property: the low byte goes first.
draw_mut(numPixels, color) ==
    GPIO_clear_pin("cs") \o GPIO_set_pin("dc")
    \o ColorLoop(numPixels, ColorA(color)[2], ColorA(color)[1])
    \o GPIO_set_pin("cs")

draw(numPixels, color) ==
    GPIO_clear_pin("cs") \o GPIO_set_pin("dc")
    \o ColorLoop(numPixels, ColorA(color)[1], ColorA(color)[2])
    \o GPIO_set_pin("cs")

----------------------------------------------------------------------------
(* Display state methods: the object after the call, and the events.       *)

rgb_state(s, value) ==
    LET rgb == IF value THEN 1 ELSE 0
    IN  IF rgb # s.rgb THEN [s EXCEPT !.rgb = rgb] ELSE s

\* Faulty variant, for sensitivity of the property: the register is written before the flag is updated.
pyb_tft_rgb_mut(s, value) ==
    IF rgb_state(s, value).rgb # s.rgb THEN setMADCTL(s) ELSE <<>>

pyb_tft_rgb(s, value) ==
    IF rgb_state(s, value).rgb # s.rgb THEN setMADCTL(rgb_state(s, value)) ELSE <<>>

\* Faulty variant, for sensitivity of the property: the sizes swap whenever the rotation changes at all.
rotation_state_mut(s, rotation_in) ==
    LET rotate == rotation_in % 4
    IN  IF rotate # s.rotate
        THEN [s EXCEPT !.rotate = rotate, !.size = <<s.size[2], s.size[1]>>]
        ELSE [s EXCEPT !.rotate = rotate]

\* rotation_in & 0x03 (two's complement); rotchange & 1 is the parity of
\* self->rotate ^ rotate.
rotation_state(s, rotation_in) ==
    LET rotate == rotation_in % 4
        rotchange == (s.rotate + rotate) % 2
    IN  IF rotchange = 1
        THEN [s EXCEPT !.rotate = rotate, !.size = <<s.size[2], s.size[1]>>]
        ELSE [s EXCEPT !.rotate = rotate]

\* Faulty variant, for sensitivity of the property: a rotation pulses the reset line first.
pyb_tft_rotation_mut(s, rotation_in) ==
    reset \o setMADCTL(rotation_state(s, rotation_in))

pyb_tft_rotation(s, rotation_in) == setMADCTL(rotation_state(s, rotation_in))

pyb_tft_pixel(s, px, py, color) == pixel(s, px, py, ColorA(color))

----------------------------------------------------------------------------
(* Drawing primitives: the events each call emits on the object s.         *)

pyb_tft_vline(s, px0, py0, len, color) ==
    LET px == clamp(0, s.size[1], px0)
        py == clamp(0, s.size[2], py0)
        ey == clamp(0, s.size[2], py + len)
    IN  IF ey < py
        THEN setwindowloc(px, ey, px, py) \o draw(len, color)
        ELSE setwindowloc(px, py, px, ey) \o draw(len, color)

\* Faulty variant, for sensitivity of the property: a reversed extent is programmed as it stands.
pyb_tft_hline_mut(s, px0, py0, len, color) ==
    LET px == clamp(0, s.size[1], px0)
        py == clamp(0, s.size[2], py0)
        ex == clamp(0, s.size[1], px + len)
    IN  setwindowloc(px, py, ex, py) \o draw(len, color)

pyb_tft_hline(s, px0, py0, len, color) ==
    LET px == clamp(0, s.size[1], px0)
        py == clamp(0, s.size[2], py0)
        ex == clamp(0, s.size[1], px + len)
    IN  IF ex < px
        THEN setwindowloc(ex, py, px, py) \o draw(len, color)
        ELSE setwindowloc(px, py, ex, py) \o draw(len, color)

\* Faulty variant, for sensitivity of the property: the minor coordinate steps when the error is negative.
RECURSIVE LineLoopX_mut(_, _, _, _, _, _, _, _, _, _)
LineLoopX_mut(s, px, py, e, ex, inx, iny, dx, dy, colorA) ==
    IF px = ex THEN <<>>
    ELSE pixel(s, px, py, colorA)
         \o LineLoopX_mut(s, px + inx, IF e < 0 THEN py + iny ELSE py,
                          (IF e >= 0 THEN e - dx ELSE e) + dy,
                          ex, inx, iny, dx, dy, colorA)

\* while (px != ex) of the dx >= dy branch; dx and dy are already doubled.
RECURSIVE LineLoopX(_, _, _, _, _, _, _, _, _, _)
LineLoopX(s, px, py, e, ex, inx, iny, dx, dy, colorA) ==
    IF px = ex THEN <<>>
    ELSE pixel(s, px, py, colorA)
         \o LineLoopX(s, px + inx, IF e >= 0 THEN py + iny ELSE py,
                      (IF e >= 0 THEN e - dx ELSE e) + dy,
                      ex, inx, iny, dx, dy, colorA)

\* while (py != ey) of the dx < dy branch.
RECURSIVE LineLoopY(_, _, _, _, _, _, _, _, _, _)
LineLoopY(s, px, py, e, ey, inx, iny, dx, dy, colorA) ==
    IF py = ey THEN <<>>
    ELSE pixel(s, px, py, colorA)
         \o LineLoopY(s, IF e >= 0 THEN px + inx ELSE px, py + iny,
                      (IF e >= 0 THEN e - dy ELSE e) + dx,
                      ey, inx, iny, dx, dy, colorA)

\* Faulty variant, for sensitivity of the property: the straight cases always start from the first endpoint.
pyb_tft_line_mut(s, px, py, ex, ey, color) ==
    IF px = ex
    THEN pyb_tft_vline(s, px, py, absint(ey - py) + 1, color)
    ELSE IF py = ey
    THEN pyb_tft_hline(s, px, py, absint(ex - px) + 1, color)
    ELSE <<>>

pyb_tft_line(s, px, py, ex, ey, color) ==
    IF px = ex
    THEN LET len == ey - py
         IN  IF len < 0
             THEN pyb_tft_vline(s, ex, ey, -len + 1, color)
             ELSE pyb_tft_vline(s, px, py, len + 1, color)
    ELSE IF py = ey
    THEN LET len == ex - px
         IN  IF len < 0
             THEN pyb_tft_hline(s, ex, ey, -len + 1, color)
             ELSE pyb_tft_hline(s, px, py, len + 1, color)
    ELSE LET inx == IF ex - px > 0 THEN 1 ELSE -1
             iny == IF ey - py > 0 THEN 1 ELSE -1
             dx == IF ex - px >= 0 THEN ex - px ELSE -(ex - px)
             dy == IF ey - py >= 0 THEN ey - py ELSE -(ey - py)
         IN  IF dx >= dy
             THEN LineLoopX(s, px, py, 2 * dy - dx, ex, inx, iny, 2 * dx, 2 * dy,
                            ColorA(color))
             ELSE LineLoopY(s, px, py, 2 * dx - dy, ey, inx, iny, 2 * dx, 2 * dy,
                            ColorA(color))

\* Faulty variant, for sensitivity of the property: the right edge is drawn one column in.
pyb_tft_rect_mut(s, px, py, sx, sy, color) ==
    pyb_tft_hline(s, px, py + sy - 1, sx, color)
    \o pyb_tft_hline(s, px, py, sx, color)
    \o pyb_tft_vline(s, px, py, sy, color)
    \o pyb_tft_vline(s, px + sx - 2, py, sy, color)

pyb_tft_rect(s, px, py, sx, sy, color) ==
    pyb_tft_hline(s, px, py + sy - 1, sx, color)
    \o pyb_tft_hline(s, px, py, sx, color)
    \o pyb_tft_vline(s, px, py, sy, color)
    \o pyb_tft_vline(s, px + sx - 1, py, sy, color)

\* The window after the two swaps.
fillrect_window(s, px0, py0, sx, sy) ==
    LET px == clamp(0, s.size[1], px0)
        py == clamp(0, s.size[2], py0)
        ex == clamp(0, s.size[1], px + sx - 1)
        ey == clamp(0, s.size[2], py + sy - 1)
    IN  << IF ex < px THEN ex ELSE px, IF ey < py THEN ey ELSE py,
           IF ex < px THEN px ELSE ex, IF ey < py THEN py ELSE ey >>

\* Faulty variant, for sensitivity of the property: the pixel count leaves out the "+ 1" of each extent.
pyb_tft_fillrect_mut(s, px0, py0, sx, sy, color) ==
    LET w == fillrect_window(s, px0, py0, sx, sy)
        numPixels == (w[3] - w[1]) * (w[4] - w[2])
    IN  setwindowloc(w[1], w[2], w[3], w[4]) \o draw(numPixels, color)

pyb_tft_fillrect(s, px0, py0, sx, sy, color) ==
    LET w == fillrect_window(s, px0, py0, sx, sy)
        numPixels == ((w[3] - w[1]) + 1) * ((w[4] - w[2]) + 1)
    IN  setwindowloc(w[1], w[2], w[3], w[4]) \o draw(numPixels, color)

\* (int)sqrtf(v) for the small non-negative integers v the callers pass.
sqrtf_int(v) == CHOOSE y \in 0 .. v : y * y <= v /\ v < (y + 1) * (y + 1)

\* Faulty variant, for sensitivity of the property: the eighth pixel repeats the seventh.
circle_column_mut(s, px, py, rad, x, colorA) ==
    LET y == sqrtf_int(rad * rad - x * x)
    IN  pixel(s, px + x, py + y, colorA) \o pixel(s, px + x, py - y, colorA)
        \o pixel(s, px - x, py + y, colorA) \o pixel(s, px - x, py - y, colorA)
        \o pixel(s, px + y, py + x, colorA) \o pixel(s, px + y, py - x, colorA)
        \o pixel(s, px - y, py + x, colorA) \o pixel(s, px - y, py + x, colorA)

\* One iteration of the loop: the eight mirrored pixels of column x.
circle_column(s, px, py, rad, x, colorA) ==
    LET y == sqrtf_int(rad * rad - x * x)
        xp == px + x
        yp == py + y
        xn == px - x
        yn == py - y
        xyp == px + y
        yxp == py + x
        xyn == px - y
        yxn == py - x
    IN  pixel(s, xp, yp, colorA) \o pixel(s, xp, yn, colorA)
        \o pixel(s, xn, yp, colorA) \o pixel(s, xn, yn, colorA)
        \o pixel(s, xyp, yxp, colorA) \o pixel(s, xyp, yxn, colorA)
        \o pixel(s, xyn, yxp, colorA) \o pixel(s, xyn, yxn, colorA)

RECURSIVE CircleLoop(_, _, _, _, _, _, _)
CircleLoop(s, px, py, rad, x, xend, colorA) ==
    IF x < xend
    THEN circle_column(s, px, py, rad, x, colorA)
         \o CircleLoop(s, px, py, rad, x + 1, xend, colorA)
    ELSE <<>>

\* xend = ((rad * 724) >> 10) + 1, an arithmetic shift.
pyb_tft_circle(s, px, py, rad, color) ==
    CircleLoop(s, px, py, rad, 0, ((rad * 724) \div 1024) + 1, ColorA(color))

fillcircle_column(s, px, py, rad, x, color) ==
    LET y == sqrtf_int(rad * rad - x * x)
        x0 == clamp(0, s.size[1], px + x)
        x1 == clamp(0, s.size[1], px - x)
        ey == clamp(0, s.size[2], (py - y) + y * 2)
        y0 == clamp(0, s.size[2], py - y)
        len == absint(ey - y0) + 1
    IN  setwindowloc(x0, y0, x0, ey) \o draw(len, color)
        \o setwindowloc(x1, y0, x1, ey) \o draw(len, color)

RECURSIVE FillcircleLoop(_, _, _, _, _, _)
FillcircleLoop(s, px, py, rad, x, color) ==
    IF x < rad
    THEN fillcircle_column(s, px, py, rad, x, color)
         \o FillcircleLoop(s, px, py, rad, x + 1, color)
    ELSE <<>>

pyb_tft_fillcircle(s, px, py, rad, color) == FillcircleLoop(s, px, py, rad, 0, color)

\* Faulty variant, for sensitivity of the property: the window ends at size, not size - 1.
pyb_tft_fill_mut(s, args) ==
    LET color == IF Len(args) > 0 THEN args[1] ELSE 0
        numPixels == s.size[1] * s.size[2]
    IN  setwindowloc(0, 0, s.size[1], s.size[2]) \o draw(numPixels, color)

\* args holds the optional colour: color = (n_args > 1) ? args[1] : 0.
pyb_tft_fill(s, args) ==
    LET color == IF Len(args) > 0 THEN args[1] ELSE 0
        numPixels == s.size[1] * s.size[2]
    IN  setwindowloc(0, 0, s.size[1] - 1, s.size[2] - 1) \o draw(numPixels, color)

----------------------------------------------------------------------------
(* Text: a font is [width, height, start, end, data], data one byte per    *)
(* column per glyph, bit 0 the top row.                                    *)

\* a > b once both ints are converted to unsigned int: a negative value
\* becomes one above every non-negative value, and order is kept within a sign.
UGt(a, b) == IF (a < 0) = (b < 0) THEN a > b ELSE a < 0

\* Faulty variant, for sensitivity of the property: a scaled block's window is one column too wide.
RECURSIVE drawchar_cells_mut(_, _, _, _, _, _, _, _, _)
drawchar_cells_mut(s, x, y, base, colorA, font, sx, sy, n) ==
    IF n >= font.width * font.height THEN <<>>
    ELSE LET i == n \div font.height
             j == n % font.height
             c == font.data[base + i + 1]
             lit == (c \div (2 ^ j)) % 2 = 1
         IN  (IF ~lit THEN <<>>
              ELSE IF sx <= 1 /\ sy <= 1
              THEN pixel(s, x + i, y + j, colorA)
              ELSE setwindowloc(x + i * sx, y + j * sy,
                                x + i * sx + sx, y + j * sy + sy - 1)
                   \o GPIO_clear_pin("cs") \o GPIO_set_pin("dc")
                   \o ColorLoop(sx * sy, colorA[1], colorA[2])
                   \o GPIO_set_pin("cs"))
             \o drawchar_cells_mut(s, x, y, base, colorA, font, sx, sy, n + 1)

\* The for (i) for (j) loops of _drawchar from cell n on, n = i * height + j;
\* base is (ci - font->start) * font->width.
RECURSIVE drawchar_cells(_, _, _, _, _, _, _, _, _)
drawchar_cells(s, x, y, base, colorA, font, sx, sy, n) ==
    IF n >= font.width * font.height THEN <<>>
    ELSE LET i == n \div font.height
             j == n % font.height
             c == font.data[base + i + 1]
             lit == (c \div (2 ^ j)) % 2 = 1
         IN  (IF ~lit THEN <<>>
              ELSE IF sx <= 1 /\ sy <= 1
              THEN pixel(s, x + i, y + j, colorA)
              ELSE setwindowloc(x + i * sx, y + j * sy,
                                x + i * sx + sx - 1, y + j * sy + sy - 1)
                   \o GPIO_clear_pin("cs") \o GPIO_set_pin("dc")
                   \o ColorLoop(sx * sy, colorA[1], colorA[2])
                   \o GPIO_set_pin("cs"))
             \o drawchar_cells(s, x, y, base, colorA, font, sx, sy, n + 1)

\* Faulty variant, for sensitivity of the property: a codepoint outside the font draws the font's first glyph.
drawchar_mut(s, x, y, ci, colorA, font, sx, sy) ==
    drawchar_cells(s, x, y,
                   (IF font.start <= ci /\ ci <= font.end
                    THEN (ci - font.start) * font.width ELSE 0),
                   colorA, font, sx, sy, 0)

drawchar(s, x, y, ci, colorA, font, sx, sy) ==
    IF font.start <= ci /\ ci <= font.end
    THEN drawchar_cells(s, x, y, (ci - font.start) * font.width,
                        colorA, font, sx, sy, 0)
    ELSE <<>>

\* The next cursor of the text loop after the character at (px, y):
\* <<px, y, more>>, more = FALSE at the break.  px + width > size[0] is an
\* unsigned comparison (width is uint), y > size[1] a signed one.
text_advance(s, x, px, y, font, sx, sy) ==
    LET width == font.width * sx
        height == font.height * sy + 1
        px1 == px + width
        wrap == UGt(px1 + width, s.size[1])
    IN  IF wrap
        THEN <<x, y + height, ~(y + height > s.size[2])>>
        ELSE <<px1, y, TRUE>>

\* for (i = 0; i < len; ++i) from character i on.
RECURSIVE TextLoop(_, _, _, _, _, _, _, _, _, _)
TextLoop(s, x, px, y, data, i, colorA, font, sx, sy) ==
    IF i > Len(data) THEN <<>>
    ELSE LET nxt == text_advance(s, x, px, y, font, sx, sy)
         IN  drawchar(s, px, y, data[i], colorA, font, sx, sy)
             \o IF nxt[3]
                THEN TextLoop(s, x, nxt[1], nxt[2], data, i + 1,
                              colorA, font, sx, sy)
                ELSE <<>>

\* The font and the size are given by the caller; size is <<sx, sy>>.
pyb_tft_text(s, x, y, data, color, font, size) ==
    TextLoop(s, x, x, y, data, 1, ColorA(color), font, size[1], size[2])

----------------------------------------------------------------------------
(* Panel initialisation.  dataA is reused between writes: each payload is  *)
(* the array's leading bytes as they stand at that write.                  *)

dataGMCTRP_bg == <<2, 28, 7, 18, 55, 50, 41, 45, 41, 37, 43, 57, 0, 1, 3, 16>>
dataGMCTRN_bg == <<3, 29, 7, 6, 46, 44, 41, 45, 46, 46, 55, 63, 0, 0, 2, 16>>
dataGMCTRP_r == <<15, 26, 15, 24, 47, 40, 32, 34, 31, 27, 35, 55, 0, 7, 2, 16>>
dataGMCTRN_r == <<15, 27, 15, 23, 51, 44, 41, 46, 48, 48, 57, 63, 0, 7, 3, 16>>

pyb_tft_initb(s) ==
    reset
    \o writecommand(ST_SWRESET) \o HAL_Delay(50)
    \o writecommand(ST_SLPOUT) \o HAL_Delay(500)
    \o writecommand(ST_COLMOD) \o writedata(<<5>>)
    \o writecommand(ST_FRMCTR1) \o writedata(<<0, 6, 3>>) \o HAL_Delay(10)
    \o setMADCTL(s)
    \o writecommand(ST_DISSET5) \o writedata(<<21, 2>>)
    \o writecommand(ST_INVCTR) \o writedata(<<0>>)
    \o writecommand(ST_PWCTR1) \o writedata(<<2, 112>>)
    \o writecommand(ST_PWCTR2) \o writedata(<<5>>)
    \o writecommand(ST_PWCTR3) \o writedata(<<1, 2>>)
    \o writecommand(ST_VMCTR1) \o writedata(<<60, 56>>)
    \o writecommand(ST_PWCTR6) \o writedata(<<17, 21>>)
    \o writecommand(ST_GMCTRP1) \o writedata(dataGMCTRP_bg)
    \o writecommand(ST_GMCTRN1) \o writedata(dataGMCTRN_bg) \o HAL_Delay(10)
    \o writecommand(ST_CASET) \o writedata(<<0, 2, 0, Byte(s.size[1] - 1)>>)
    \* dataA[2] = 0x01 ("Start y"); dataA[1] is still 2; dataA[3] = height - 1
    \o writecommand(ST_RASET) \o writedata(<<0, 2, 1, Byte(s.size[2] - 1)>>)
    \o writecommand(ST_NORON) \o HAL_Delay(10)
    \o writecommand(ST_RAMWR) \o HAL_Delay(500)
    \o writecommand(ST_DISPON) \o GPIO_set_pin("cs") \o HAL_Delay(100)

pyb_tft_initr(s) ==
    reset
    \o writecommand(ST_SWRESET) \o HAL_Delay(150)
    \o writecommand(ST_SLPOUT) \o HAL_Delay(500)
    \o writecommand(ST_FRMCTR1) \o writedata(<<1, 44, 45>>)
    \o writecommand(ST_FRMCTR2) \o writedata(<<1, 44, 45>>)
    \o writecommand(ST_FRMCTR3) \o writedata(<<1, 44, 45, 1, 44, 45>>) \o HAL_Delay(10)
    \o writecommand(ST_INVCTR) \o writedata(<<7>>)
    \o writecommand(ST_PWCTR1) \o writedata(<<162, 2, 132>>)
    \o writecommand(ST_PWCTR2) \o writedata(<<197>>)
    \o writecommand(ST_PWCTR3) \o writedata(<<10, 0>>)
    \o writecommand(ST_PWCTR4) \o writedata(<<138, 42>>)
    \o writecommand(ST_PWCTR5) \o writedata(<<138, 238>>)
    \o writecommand(ST_VMCTR1) \o writedata(<<14>>)
    \o writecommand(ST_INVOFF)
    \o setMADCTL(s)
    \o writecommand(ST_COLMOD) \o writedata(<<5>>)
    \o writecommand(ST_CASET) \o writedata(<<0, 0, 0, Byte(s.size[1] - 1)>>)
    \o writecommand(ST_RASET) \o writedata(<<0, 0, 0, Byte(s.size[2] - 1)>>)
    \o writecommand(ST_GMCTRP1) \o writedata(dataGMCTRP_r)
    \o writecommand(ST_GMCTRN1) \o writedata(dataGMCTRN_r) \o HAL_Delay(10)
    \o writecommand(ST_NORON) \o HAL_Delay(10)
    \o writecommand(ST_DISPON) \o GPIO_set_pin("cs") \o HAL_Delay(100)

pyb_tft_initg(s) ==
    reset
    \o writecommand(ST_SWRESET) \o HAL_Delay(150)
    \o writecommand(ST_SLPOUT) \o HAL_Delay(255)
    \o writecommand(ST_FRMCTR1) \o writedata(<<1, 44, 45>>)
    \o writecommand(ST_FRMCTR2) \o writedata(<<1, 44, 45>>)
    \o writecommand(ST_FRMCTR3) \o writedata(<<1, 44, 45, 1, 44, 45>>)
    \o writecommand(ST_INVCTR) \o writedata(<<7>>)
    \o writecommand(ST_PWCTR1) \o writedata(<<162, 2, 132>>)
    \o writecommand(ST_PWCTR2) \o writedata(<<197>>)
    \o writecommand(ST_PWCTR3) \o writedata(<<10, 0>>)
    \o writecommand(ST_PWCTR4) \o writedata(<<138, 42>>)
    \o writecommand(ST_PWCTR5) \o writedata(<<138, 238>>)
    \o writecommand(ST_VMCTR1) \o writedata(<<14>>)
    \o writecommand(ST_INVOFF)
    \o setMADCTL(s)
    \o writecommand(ST_COLMOD) \o writedata(<<5>>)
    \o writecommand(ST_CASET) \o writedata(<<0, 1, 0, Byte(s.size[1] - 1)>>)
    \o writecommand(ST_RASET) \o writedata(<<0, 1, 0, Byte(s.size[2] - 1)>>)
    \o writecommand(ST_GMCTRP1) \o writedata(dataGMCTRP_bg)
    \o writecommand(ST_GMCTRN1) \o writedata(dataGMCTRN_bg)
    \o writecommand(ST_NORON) \o HAL_Delay(10)
    \o writecommand(ST_DISPON) \o GPIO_set_pin("cs") \o HAL_Delay(100)

----------------------------------------------------------------------------
(* The state machine. *)

\* Faulty variant, for sensitivity of the property: green is masked to five bits.
TFT_COLOR_mut(r, g, b) ==
    BitOr(BitOr(Shl(BitAnd(r, 248), 8), Shl(BitAnd(g, 248), 3)), Shr(b, 3))

\* (((r & 0xF8) << 8) | ((g & 0xFC) << 3) | (b >> 3))
TFT_COLOR(r, g, b) ==
    BitOr(BitOr(Shl(BitAnd(r, 248), 8), Shl(BitAnd(g, 252), 3)), Shr(b, 3))

\* The class method color(r, g, b).
tft_color(r, g, b) == TFT_COLOR(r, g, b)

Inits == {"initr", "initg", "initb"}

\* What a transmit can return: done, failed, timed out.
HalStatus == {"HAL_OK", "HAL_ERROR", "HAL_TIMEOUT"}

Controls == Inits \cup {"rotation", "rgb"}

NoHist == [name |-> "none", size |-> <<0, 0>>, rotate |-> 0]

PinLevel == {0, 1}

\* No MADCTL write has been received yet.
NoMADCTL == -1

\* pyb_tft_make_new: size, rotate, rgb, CS high, DC low; the reset pin is
\* configured as an output but never written, so its level is either.
Init ==
    /\ \E r \in PinLevel :
         self = [size |-> <<128, 160>>, rotate |-> 0, rgb |-> 1,
                 cs |-> 1, dc |-> 0, rst |-> r, bus |-> <<>>]
    /\ op = [name |-> "new", args |-> <<>>, ret |-> "None", hal |-> "HAL_OK"]
    /\ pre = self
    /\ hist = NoHist
    /\ spi = "HAL_OK"
    /\ lcd = [madctl |-> NoMADCTL, inited |-> FALSE]

\* The level of a pin after the events: that of its last write, else as before.
LevelAfter(events, pin, before) ==
    LET IsWrite(i) == events[i].k = "pin" /\ events[i].pin = pin
        W == {i \in 1 .. Len(events) : IsWrite(i)}
    IN  IF W = {} THEN before
        ELSE events[CHOOSE i \in W : \A j \in i + 1 .. Len(events) : ~IsWrite(j)].v

\* The object as a call finds it: the wires' record starts empty.
Begin == [self EXCEPT !.bus = <<>>]

\* The payload of the last MADCTL write among the events, before when there
\* is none: the byte of the first transmit after the last transmit of
\* ST_MADCTL made with DC low.  dc is the level of DC before the events.
LastMADCTL(events, dc, before) ==
    LET Tx == {i \in 1 .. Len(events) : events[i].k = "tx"}
        C == {i \in Tx : /\ events[i].b = ST_MADCTL
                          /\ LevelAfter(SubSeq(events, 1, i - 1), "dc", dc) = 0
                          /\ \E j \in Tx : j > i}
    IN  IF C = {} THEN before
        ELSE LET i == CHOOSE c \in C : \A d \in C : d <= c
                 j == CHOOSE n \in Tx : n > i /\ \A m \in Tx : m > i => n <= m
             IN  events[j].b

\* A call: s is the object as the method leaves it, events what it put on
\* the wires, ret what it returns.
CallRet(name, args, s, events, ret) ==
    /\ self' = [s EXCEPT !.bus = events,
                         !.cs = LevelAfter(events, "cs", s.cs),
                         !.dc = LevelAfter(events, "dc", s.dc),
                         !.rst = LevelAfter(events, "rst", s.rst)]
    /\ op' = [name |-> name, args |-> args, ret |-> ret, hal |-> spi]
    /\ pre' = Begin
    /\ hist' = IF name \in Controls /\ op.name \in Controls \cup {"new"}
               THEN [name |-> op.name, size |-> pre.size, rotate |-> pre.rotate]
               ELSE NoHist
    /\ lcd' = [madctl |-> LastMADCTL(events, s.dc, lcd.madctl),
               inited |-> lcd.inited \/ name \in Inits]
    /\ UNCHANGED spi

\* The methods of the object all return mp_const_none.
Call(name, args, s, events) == CallRet(name, args, s, events, "None")

\* Arguments of the calls.  Off is how far beyond the display's edges the
\* coordinates, lengths and sizes go; MaxLine the longest line's extent per
\* axis; MaxRad the largest radius.
Off == 5
MaxLine == 4
MaxRad == 5

RotArgs == -1 .. 5

Colors == {0, 63519}

Positions ==
    { <<0, 0>>, <<-Off, 3>>, <<60, 160 + Off>>, <<127, 159>>, <<159, 127>>,
      <<128, 160>>, <<160, 128>>, <<10, -1>> }

Lengths == {-Off, -1, 0, 1, 2, Off, 160 + Off}

Sizes ==
    { <<-Off, -Off>>, <<0, 0>>, <<1, 1>>, <<Off, 2>>, <<160 + Off, 160 + Off>>,
      <<-1, Off>>, <<128, 160>>, <<160, 128>>, <<3, 4>> }

LineStarts == { <<0, 0>>, <<10, 10>>, <<127, 159>>, <<124, 3>> }

LineDeltas == {-MaxLine, -1, 0, 1, 2, MaxLine}

Centers == { <<10, 10>>, <<64, 80>>, <<2, 3>>, <<127, 159>> }

Radii == -1 .. MaxRad

\* MaxText is the longest string.  The caller's font has a glyph with lit
\* cells (65) and a blank one (66); 64 is outside it.  The strings are made
\* of 64 and 65.
MaxText == 2

Fonts == { [width |-> 2, height |-> 3, start |-> 65, end |-> 66,
            data |-> <<5, 2, 0, 0>>] }

TextChars == {64, 65}

Texts == UNION { [1 .. n -> TextChars] : n \in 0 .. MaxText }

TextStarts == { <<0, 0>>, <<125, 155>>, <<125, 157>>, <<-125, 3>> }

TextSizes == { <<1, 1>>, <<30, 50>> }

DoRotation ==
    \E v \in RotArgs :
        Call("rotation", <<v>>, rotation_state(Begin, v), pyb_tft_rotation(Begin, v))

DoRgb ==
    \E v \in BOOLEAN :
        Call("rgb", <<v>>, rgb_state(Begin, v), pyb_tft_rgb(Begin, v))

\* Faulty variant, for sensitivity of the property: initialisation puts the object back to rotation 0.
DoInitr_mut ==
    Call("initr", <<>>, [Begin EXCEPT !.rotate = 0, !.size = <<128, 160>>],
         pyb_tft_initr([Begin EXCEPT !.rotate = 0, !.size = <<128, 160>>]))

DoInitr == Call("initr", <<>>, Begin, pyb_tft_initr(Begin))

DoInitg == Call("initg", <<>>, Begin, pyb_tft_initg(Begin))

DoInitb == Call("initb", <<>>, Begin, pyb_tft_initb(Begin))

DoPixel ==
    \E p \in Positions, c \in Colors :
        Call("pixel", <<p[1], p[2], c>>, Begin, pyb_tft_pixel(Begin, p[1], p[2], c))

DoHline ==
    \E p \in Positions, len \in Lengths :
        Call("hline", <<p[1], p[2], len, 63519>>, Begin,
             pyb_tft_hline(Begin, p[1], p[2], len, 63519))

DoVline ==
    \E p \in Positions, len \in Lengths :
        Call("vline", <<p[1], p[2], len, 63519>>, Begin,
             pyb_tft_vline(Begin, p[1], p[2], len, 63519))

DoLine ==
    \E a \in LineStarts, dx \in LineDeltas, dy \in LineDeltas :
        Call("line", <<a[1], a[2], a[1] + dx, a[2] + dy, 63519>>, Begin,
             pyb_tft_line(Begin, a[1], a[2], a[1] + dx, a[2] + dy, 63519))

DoRect ==
    \E p \in Positions, sz \in Sizes :
        Call("rect", <<p[1], p[2], sz[1], sz[2], 63519>>, Begin,
             pyb_tft_rect(Begin, p[1], p[2], sz[1], sz[2], 63519))

DoFillrect ==
    \E p \in Positions, sz \in Sizes :
        Call("fillrect", <<p[1], p[2], sz[1], sz[2], 63519>>, Begin,
             pyb_tft_fillrect(Begin, p[1], p[2], sz[1], sz[2], 63519))

DoCircle ==
    \E p \in Centers, rad \in Radii :
        Call("circle", <<p[1], p[2], rad, 63519>>, Begin,
             pyb_tft_circle(Begin, p[1], p[2], rad, 63519))

DoFillcircle ==
    \E p \in Centers, rad \in Radii :
        Call("fillcircle", <<p[1], p[2], rad, 63519>>, Begin,
             pyb_tft_fillcircle(Begin, p[1], p[2], rad, 63519))

DoFill ==
    \E args \in {<<>>} \cup {<<c>> : c \in Colors} :
        Call("fill", args, Begin, pyb_tft_fill(Begin, args))

\* Channel values of color(r, g, b): both ends of the range and values
\* with bits on either side of each mask.
Channels == {0, 1, 7, 8, 36, 128, 252, 255}

\* The class method touches no display object and no wire.
DoColor ==
    \E r \in Channels, g \in Channels, b \in Channels :
        CallRet("color", <<r, g, b>>, Begin, <<>>, tft_color(r, g, b))

\* The transport changes condition between calls.
SpiStatus ==
    /\ \E st \in HalStatus : spi' = st
    /\ UNCHANGED <<self, op, pre, hist, lcd>>

DoText ==
    \E p \in TextStarts, str \in Texts, font \in Fonts, size \in TextSizes :
        Call("text", <<p[1], p[2], str, 63519, font, size>>, Begin,
             pyb_tft_text(Begin, p[1], p[2], str, 63519, font, size))

\* Display state and initialisation calls.
NextCtl == DoRotation \/ DoRgb \/ DoInitr \/ DoInitg \/ DoInitb

SpecCtl == Init /\ [][NextCtl]_vars

\* Pixels, straight runs and filled rectangles, in every rotation.
NextPrim == DoRotation \/ DoPixel \/ DoHline \/ DoVline \/ DoFillrect \/ DoFill

SpecPrim == Init /\ [][NextPrim]_vars

\* Lines, in every rotation.
NextLine == DoRotation \/ DoLine

SpecLine == Init /\ [][NextLine]_vars

\* Circles, in every rotation.
NextCircle == DoRotation \/ DoCircle \/ DoFillcircle

SpecCircle == Init /\ [][NextCircle]_vars

\* Rectangle outlines, in every rotation.
NextRect == DoRotation \/ DoRect

SpecRect == Init /\ [][NextRect]_vars

\* Text, in every rotation.
NextText == DoRotation \/ DoText

SpecText == Init /\ [][NextText]_vars

\* Every drawing call, one after another.
NextDraw ==
    \/ DoPixel \/ DoHline \/ DoVline \/ DoLine \/ DoRect \/ DoFillrect
    \/ DoFill \/ DoCircle \/ DoFillcircle \/ DoText

SpecDraw == Init /\ [][NextDraw]_vars

\* Initialisation, display state, and drawing calls over every framing
\* routine: pixels, the colour loop of a fill, and text blocks.
NextBus ==
    \/ DoInitr \/ DoInitg \/ DoInitb \/ DoRotation \/ DoRgb
    \/ DoPixel \/ DoFill \/ DoText

SpecBus == Init /\ [][NextBus]_vars

\* The colour class method.
NextColor == DoColor

SpecColor == Init /\ [][NextColor]_vars

\* Calls over a transport that may fail.
NextFault == SpiStatus \/ DoRotation \/ DoRgb \/ DoPixel \/ DoFill

SpecFault == Init /\ [][NextFault]_vars

\* Every call.
Next ==
    \/ DoRotation \/ DoRgb \/ DoInitr \/ DoInitg \/ DoInitb
    \/ DoPixel \/ DoHline \/ DoVline \/ DoLine \/ DoRect \/ DoFillrect
    \/ DoCircle \/ DoFillcircle \/ DoFill \/ DoText \/ DoColor \/ SpiStatus

Spec == Init /\ [][Next]_vars

----------------------------------------------------------------------------
(* What the device sees: the transmits of the last call, each with the     *)
(* data/command level it was sent under, and the addressing windows and    *)
(* colour words read off them.                                             *)

\* The level of a pin when event i happens: its last write before i.
RECURSIVE LevelAt(_, _, _, _)
LevelAt(events, i, pin, before) ==
    IF i = 1 THEN before
    ELSE IF events[i - 1].k = "pin" /\ events[i - 1].pin = pin THEN events[i - 1].v
    ELSE LevelAt(events, i - 1, pin, before)

IsTransfer(e) == e.k \in {"tx", "txrun"}

\* The transfers in order: dc the data/command level, b the byte (the high
\* byte of a run), bytes the number of bytes transferred.
Transfers ==
    LET b == self.bus
        T == [i \in 1 .. Len(b) |->
                IF b[i].k = "tx"
                THEN [k |-> "tx", dc |-> LevelAt(b, i, "dc", pre.dc),
                      b |-> b[i].b, bytes |-> 1]
                ELSE IF b[i].k = "txrun"
                THEN [k |-> "txrun", dc |-> LevelAt(b, i, "dc", pre.dc),
                      b |-> b[i].hi, bytes |-> 2 * b[i].n]
                ELSE [k |-> "other", dc |-> 0, b |-> 0, bytes |-> 0]]
    IN  SelectSeq(T, IsTransfer)

IsCommand(e, c) == e.dc = 0 /\ e.k = "tx" /\ e.b = c

IsData(e) == e.dc = 1 /\ e.k = "tx"

\* A set_window starts at transfer i: CASET, four data bytes, RASET, four
\* data bytes, RAMWR.
IsWindowAt(t, i) ==
    /\ i + 10 <= Len(t)
    /\ IsCommand(t[i], ST_CASET)
    /\ \A j \in 1 .. 4 : IsData(t[i + j]) /\ IsData(t[i + 5 + j])
    /\ IsCommand(t[i + 5], ST_RASET)
    /\ IsCommand(t[i + 10], ST_RAMWR)

\* <<x0, y0, x1, y1>> of the window starting at transfer i.
WindowAt(t, i) == <<t[i + 2].b, t[i + 7].b, t[i + 4].b, t[i + 9].b>>

\* The bytes sent in data mode from transfer i up to the next command.
RECURSIVE DataBytes(_, _)
DataBytes(t, i) ==
    IF i > Len(t) \/ t[i].dc = 0 THEN 0 ELSE t[i].bytes + DataBytes(t, i + 1)

\* The windows of the last call, in order of their position i, each with
\* the number of bytes streamed after its RAMWR.
Windows ==
    LET t == Transfers
    IN  { [i |-> i, win |-> WindowAt(t, i), bytes |-> DataBytes(t, i + 11)] :
            i \in {j \in 1 .. Len(t) : IsWindowAt(t, j)} }

Area(w) == (w[3] - w[1] + 1) * (w[4] - w[2] + 1)

\* The device fills a window row by row from its origin: the cells the
\* first n colour words of a stream land in.
Written(w, n) ==
    LET cols == w[3] - w[1] + 1
        m == IF n < Area(w) THEN n ELSE Area(w)
    IN  { <<w[1] + (k % cols), w[2] + (k \div cols)>> : k \in 0 .. m - 1 }

\* Every cell the last call wrote.
Plotted == UNION { Written(x.win, x.bytes \div 2) : x \in Windows }

Width == pre.size[1]
Height == pre.size[2]

OnScreen(x, y) == 0 <= x /\ x < Width /\ 0 <= y /\ y < Height

Display(s) == <<s.size, s.rotate, s.rgb>>

----------------------------------------------------------------------------
(* Claims. *)

\* C1: every addressing window a drawing call programs has all four of its
\* coordinates inside the display, 0 <= x0, x1 <= width-1 and
\* 0 <= y0, y1 <= height-1.
C1_WindowsInsideDisplay ==
    \A x \in Windows :
        /\ OnScreen(x.win[1], x.win[2])
        /\ OnScreen(x.win[3], x.win[4])

\* C2: the number of colour words streamed after a set_window equals the
\* pixel count (x1-x0+1)*(y1-y0+1) of the window just programmed.
C2_WordsEqualWindowArea ==
    \A x \in Windows : x.bytes = 2 * Area(x.win)

\* C5: pixel(x,y) in bounds programs the window (x,y,x,y) and streams one
\* colour word; out of bounds it emits nothing and changes nothing.
C5_PixelWindow ==
    op.name = "pixel" =>
        IF OnScreen(op.args[1], op.args[2])
        THEN /\ {x.win : x \in Windows}
                  = {<<op.args[1], op.args[2], op.args[1], op.args[2]>>}
             /\ \A x \in Windows : x.bytes = 2
        ELSE self = pre

\* C6: fill_rect programs one window and streams exactly its area in colour
\* words, (ex-px+1)*(ey-py+1), a count that is never negative, for any
\* origin and size.
C6_FillRectCount ==
    op.name = "fillrect" =>
        /\ Cardinality(Windows) = 1
        /\ \A x \in Windows :
             /\ x.win[1] <= x.win[3] /\ x.win[2] <= x.win[4]
             /\ x.bytes = 2 * Area(x.win)
             /\ x.bytes >= 0
        /\ Len(SelectSeq(self.bus, IsTransfer)) = 12

C6_Witness ==
    /\ op.name = "fillrect"
    /\ op.args[1] < 0 /\ op.args[3] < 0 /\ op.args[4] > 1
    /\ \E x \in Windows : x.bytes > 2

\* C7: in every rotation fill(color) puts on the bus what
\* fill_rect((0,0),(width,height),color) does: the window
\* (0,0,width-1,height-1), then width*height colour words; fill() uses
\* colour 0.
C7_FillIsFillRect ==
    op.name = "fill" =>
        LET color == IF op.args = <<>> THEN 0 ELSE op.args[1]
        IN  /\ self.bus = pyb_tft_fillrect(pre, 0, 0, Width, Height, color)
            /\ Windows = { [i |-> 1, win |-> <<0, 0, Width - 1, Height - 1>>,
                            bytes |-> 2 * Width * Height] }
            /\ \A i \in 1 .. Len(self.bus) :
                 self.bus[i].k = "txrun" =>
                     /\ self.bus[i].n = Width * Height
                     /\ self.bus[i].hi = (color \div 256) % 256
                     /\ self.bus[i].lo = color % 256

C7_Witness ==
    /\ op.name = "fill"
    /\ op.args = <<>>
    /\ self.rotate = 1
    /\ \E x \in Windows : x.win = <<0, 0, 159, 127>>

Sign(d) == IF d > 0 THEN 1 ELSE IF d < 0 THEN -1 ELSE 0

\* The cells from a to b inclusive, for a, b on one row, column or diagonal.
Segment(ax, ay, bx, by) ==
    LET n == IF absint(bx - ax) > absint(by - ay)
             THEN absint(bx - ax) ELSE absint(by - ay)
    IN  { <<ax + k * Sign(bx - ax), ay + k * Sign(by - ay)>> : k \in 0 .. n }

LineOnScreen ==
    /\ op.name = "line"
    /\ OnScreen(op.args[1], op.args[2])
    /\ OnScreen(op.args[3], op.args[4])

\* C3: a 45-degree line between on-screen points a and b, |dx| = |dy| = n >= 1,
\* plots exactly the n+1 pixels a + k*(step_x, step_y), k = 0..n, b included.
C3_DiagonalLine ==
    ( /\ LineOnScreen
      /\ absint(op.args[3] - op.args[1]) = absint(op.args[4] - op.args[2])
      /\ op.args[1] # op.args[3] )
    => Plotted = Segment(op.args[1], op.args[2], op.args[3], op.args[4])

\* C4: for on-screen a and b sharing an x or a y, line(a,b) is one vline or
\* hline from the endpoint with the smaller coordinate, of length |delta|+1,
\* and writes exactly the |delta|+1 pixels from a to b (one pixel when a = b).
C4_StraightLine ==
    ( /\ LineOnScreen
      /\ (op.args[1] = op.args[3] \/ op.args[2] = op.args[4]) )
    => LET ax == op.args[1]
           ay == op.args[2]
           bx == op.args[3]
           by == op.args[4]
           delta == absint(bx - ax) + absint(by - ay)
       IN  /\ Cardinality(Windows) = 1
           /\ \A x \in Windows :
                /\ x.win[1] = (IF ax < bx THEN ax ELSE bx)
                /\ x.win[2] = (IF ay < by THEN ay ELSE by)
                /\ IF ax = bx THEN x.win[3] = ax ELSE x.win[4] = ay
                /\ x.bytes = 2 * (delta + 1)
           /\ Plotted = Segment(ax, ay, bx, by)
           /\ Cardinality(Plotted) = delta + 1

C4_Witness ==
    /\ LineOnScreen
    /\ op.args[2] = op.args[4]
    /\ op.args[3] < op.args[1] - 1
    /\ Cardinality(Plotted) >= 3

\* The circle of the last call lies wholly on the display.
CircleOnScreen ==
    /\ op.name = "circle"
    /\ op.args[3] >= 0
    /\ OnScreen(op.args[1] - op.args[3], op.args[2] - op.args[3])
    /\ OnScreen(op.args[1] + op.args[3], op.args[2] + op.args[3])

\* The eight mirror images of the offset (x, y) about the centre (cx, cy).
Octants(cx, cy, x, y) ==
    { <<cx + a, cy + b>> : a \in {x, -x}, b \in {y, -y} }
    \cup { <<cx + a, cy + b>> : a \in {y, -y}, b \in {x, -x} }

\* C8: a circle lying wholly on the display plots a pixel set symmetric about
\* its centre under x -> -x, y -> -y and x <-> y: the eight mirror images of
\* (x, floor(sqrt(r*r - x*x))) for x in 0..((r*724)>>10).
C8_CircleSymmetry ==
    CircleOnScreen =>
        LET cx == op.args[1]
            cy == op.args[2]
            r == op.args[3]
        IN  /\ \A p \in Plotted :
                 /\ <<2 * cx - p[1], p[2]>> \in Plotted
                 /\ <<p[1], 2 * cy - p[2]>> \in Plotted
                 /\ <<cx + (p[2] - cy), cy + (p[1] - cx)>> \in Plotted
            /\ Plotted =
                 UNION { UNION { Octants(cx, cy, x, y) :
                                   y \in { v \in 0 .. r :
                                             /\ v * v <= r * r - x * x
                                             /\ r * r - x * x < (v + 1) * (v + 1) } } :
                           x \in 0 .. ((r * 724) \div 1024) }
            /\ \A x \in Windows : x.bytes = 2

C8_Witness ==
    /\ CircleOnScreen
    /\ op.args[3] >= 3
    /\ Cardinality(Plotted) >= 16

\* Two rotations are of different orientation class: one even, one odd.
ClassDiffers(r1, r2) == r1 % 2 # r2 % 2

Swapped(size) == <<size[2], size[1]>>

\* C9: set_rotation(v) swaps width and height exactly when the new and the
\* old rotation differ in orientation class and leaves them unchanged
\* otherwise; two successive class toggles restore the original size.
C9_RotationSwap ==
    op.name = "rotation" =>
        /\ self.size = IF ClassDiffers(pre.rotate, self.rotate)
                       THEN Swapped(pre.size) ELSE pre.size
        /\ self.size # pre.size <=> ClassDiffers(pre.rotate, self.rotate)
        /\ ( /\ hist.name = "rotation"
             /\ ClassDiffers(hist.rotate, pre.rotate)
             /\ ClassDiffers(pre.rotate, self.rotate) )
           => self.size = hist.size

C9_Witness ==
    /\ op.name = "rotation"
    /\ hist.name = "rotation"
    /\ hist.rotate = 0 /\ pre.rotate = 3 /\ self.rotate = 2
    /\ pre.size = <<160, 128>>
    /\ self.size = <<128, 160>>

C10_InitKeepsDisplay == op.name \in Inits => Display(self) = Display(pre)

C10_SecondCall ==
    (op.name \in Inits /\ op'.name = op.name)
    => (self'.bus = self.bus /\ Display(self') = Display(self))

\* C10: calling initr, initg or initb a second time emits the same sequence
\* of pin, delay, command and data events as the first call, and the call
\* leaves width, height, rotation and colour order unchanged.
C10_InitTwice == [] C10_InitKeepsDisplay /\ [][C10_SecondCall]_vars

C10_Witness ==
    /\ op.name = "initr"
    /\ hist.name = "initr"
    /\ self.rotate = 1
    /\ Len(self.bus) > 100

----------------------------------------------------------------------------
(* Text. *)

InFont(font, ci) == font.start <= ci /\ ci <= font.end

\* The string with every codepoint outside the font replaced by ci.
Replaced(str, font, ci) ==
    [i \in 1 .. Len(str) |-> IF InFont(font, str[i]) THEN str[i] ELSE ci]

\* C11: in a text call a character outside [font.start, font.end] puts
\* nothing on the bus, and the cursor moves on as for a drawn character: the
\* call's events are those of the same call with each such character
\* replaced by the font's blank glyph, and a string of such characters
\* alone emits nothing.
C11_OutsideFontSkipped ==
    op.name = "text" =>
        LET a == op.args
        IN  /\ self.bus = pyb_tft_text(pre, a[1], a[2], Replaced(a[3], a[5], 66),
                                       a[4], a[5], a[6])
            /\ (\A i \in 1 .. Len(a[3]) : ~InFont(a[5], a[3][i])) => self.bus = <<>>

\* A character outside the font followed by a drawn one.
C11_Witness ==
    /\ op.name = "text"
    /\ op.args[3] = <<64, 65>>
    /\ Windows # {}

\* The cursor rule as stated: advance by width; wrap when the next
\* character's right edge exceeds the display width; stop when the new
\* line's top exceeds the display height.
RECURSIVE StatedTextLoop(_, _, _, _, _, _, _, _, _, _)
StatedTextLoop(s, x, px, y, data, i, colorA, font, sx, sy) ==
    IF i > Len(data) THEN <<>>
    ELSE LET width == font.width * sx
             height == font.height * sy + 1
             wrap == px + width + width > s.size[1]
         IN  drawchar(s, px, y, data[i], colorA, font, sx, sy)
             \o IF wrap /\ y + height > s.size[2] THEN <<>>
                ELSE StatedTextLoop(s, x, IF wrap THEN x ELSE px + width,
                                    IF wrap THEN y + height ELSE y,
                                    data, i + 1, colorA, font, sx, sy)

\* C12: a text call draws its characters at the cursors of the stated
\* rule: x advances by font.width*sx, wraps to the starting column and
\* down by font.height*sy + 1 when the next right edge exceeds the width,
\* and nothing more is emitted once the new line's top exceeds the height.
C12_TextCursor ==
    op.name = "text" =>
        LET a == op.args
        IN  self.bus = StatedTextLoop(pre, a[1], a[1], a[2], a[3], 1, ColorA(a[4]),
                                      a[5], a[6][1], a[6][2])

----------------------------------------------------------------------------
(* Display state calls on the bus. *)

\* The events of the last call that are of kind k.
EventsOfKind(k) == SelectSeq(self.bus, LAMBDA e : e.k = k)

\* The transfers are one MADCTL command and one data byte.
OnlyMADCTL ==
    /\ Len(Transfers) = 2
    /\ IsCommand(Transfers[1], ST_MADCTL)
    /\ IsData(Transfers[2])

\* C13: a rotation call puts on the bus one MADCTL command followed by one
\* data byte and nothing else; a colour order call does the same when it
\* changes the order and transfers nothing when it does not.  Neither
\* writes the reset line nor delays.
C13_OnlyMADCTL ==
    op.name \in {"rotation", "rgb"} =>
        /\ EventsOfKind("delay") = <<>>
        /\ \A i \in 1 .. Len(self.bus) :
               self.bus[i].k = "pin" => self.bus[i].pin # "rst"
        /\ IF op.name = "rgb" /\ self.rgb = pre.rgb
           THEN Transfers = <<>>
           ELSE OnlyMADCTL

\* A rotation after an initialisation, and a colour order call that changed
\* the order: both reached.
C13_Witness ==
    /\ op.name \in {"rotation", "rgb"}
    /\ self.rgb # pre.rgb \/ hist.name \in Inits
    /\ OnlyMADCTL

----------------------------------------------------------------------------
(* Colour packing. *)

\* C14: for r, g, b in 0..255 color(r, g, b) is a 16 bit value whose top
\* five bits are r >> 3, middle six bits g >> 2 and low five bits b >> 3,
\* which is ((r & 0xF8) << 8) | ((g & 0xFC) << 3) | (b >> 3).
C14_ColorPacking ==
    op.name = "color" =>
        LET r == op.args[1]
            g == op.args[2]
            b == op.args[3]
        IN  /\ op.ret \in 0 .. 65535
            /\ op.ret \div 2048 = r \div 8
            /\ (op.ret \div 32) % 64 = g \div 4
            /\ op.ret % 32 = b \div 8
            /\ op.ret = (r - (r % 8)) * 256 + (g - (g % 4)) * 8 + (b \div 8)

\* A colour with low bits to drop in every channel.
C14_Witness ==
    /\ op.name = "color"
    /\ op.args = <<255, 36, 7>>
    /\ op.ret = 63776

----------------------------------------------------------------------------
(* Transport failure. *)

\* C16: when the transport fails or times out during a call that
\* transmits, the call returns an error and no byte follows the failed
\* transmit.
C16_FailurePropagates ==
    (op.hal # "HAL_OK" /\ Transfers # <<>>) =>
        /\ op.ret = "error"
        /\ Len(Transfers) = 1
        /\ Transfers[1].bytes = 1

----------------------------------------------------------------------------
(* Construction defaults. *)

\* The payload bytes of the MADCTL writes of the last call, in order.
MADCTLPayloads ==
    LET t == Transfers
        At == {i \in 1 .. Len(t) - 1 : IsCommand(t[i], ST_MADCTL) /\ IsData(t[i + 1])}
    IN  [n \in 1 .. Cardinality(At) |->
            t[(CHOOSE i \in At : Cardinality({j \in At : j <= i}) = n) + 1].b]

\* C15: the display an initialisation finds right after construction is
\* 128 by 160, rotation 0, colour order BGR, and the MADCTL payload that
\* initialisation writes is 0x00 | 0x08.
C15_ConstructedBGR ==
    (op.name \in Inits /\ hist.name = "new") =>
        /\ pre.size = <<128, 160>>
        /\ pre.rotate = 0
        /\ pre.rgb = 0
        /\ MADCTLPayloads = <<8>>

----------------------------------------------------------------------------
(* Order of the initialisation sequences. *)

\* The command bytes of the last call, in order.
Cmds ==
    LET c == SelectSeq(Transfers, LAMBDA e : e.dc = 0)
    IN  [i \in 1 .. Len(c) |-> c[i].b]

\* The positions of command c among the commands cmds.
CmdAt(cmds, c) == {i \in 1 .. Len(cmds) : cmds[i] = c}

\* Every c of cs is sent, and every sending of it comes after position i.
AllAfter(cmds, cs, i) ==
    \A c \in cs : CmdAt(cmds, c) # {} /\ \A j \in CmdAt(cmds, c) : j > i

\* The events other than chip-select and data/command writes begin with
\* reset high, delay, low, delay, high, then software reset, delay,
\* sleep-out, delay.
StartsWithReset ==
    LET e == SelectSeq(self.bus, LAMBDA x : x.k = "pin" => x.pin = "rst")
    IN  /\ Len(e) >= 9
        /\ e[1] = [k |-> "pin", pin |-> "rst", v |-> 1]
        /\ e[2].k = "delay"
        /\ e[3] = [k |-> "pin", pin |-> "rst", v |-> 0]
        /\ e[4].k = "delay"
        /\ e[5] = [k |-> "pin", pin |-> "rst", v |-> 1]
        /\ e[6].k = "tx" /\ e[6].b = ST_SWRESET
        /\ e[7].k = "delay"
        /\ e[8].k = "tx" /\ e[8].b = ST_SLPOUT
        /\ e[9].k = "delay"

\* Frame-rate, power-control, VCOM, gamma and colour-mode registers.
SetupRegisters ==
    {ST_FRMCTR1, ST_FRMCTR2, ST_FRMCTR3, ST_PWCTR1, ST_PWCTR2, ST_PWCTR3,
     ST_PWCTR4, ST_PWCTR5, ST_PWCTR6, ST_VMCTR1, ST_GMCTRP1, ST_GMCTRN1,
     ST_COLMOD}

\* Software reset and sleep-out first; MADCTL once, at m; then the column
\* range, then the row range, then normal-display-on, then display-on as
\* the last command.
MADCTLThenWindowThenOn(cmds, m) ==
    /\ Len(cmds) >= 7
    /\ cmds[1] = ST_SWRESET /\ cmds[2] = ST_SLPOUT
    /\ CmdAt(cmds, ST_MADCTL) = {m}
    /\ CmdAt(cmds, ST_DISPON) = {Len(cmds)}
    /\ \E c \in m + 1 .. Len(cmds) :
        /\ CmdAt(cmds, ST_CASET) = {c}
        /\ \E r \in c + 1 .. Len(cmds) :
            /\ CmdAt(cmds, ST_RASET) = {r}
            /\ \E n \in r + 1 .. Len(cmds) : CmdAt(cmds, ST_NORON) = {n}

----------------------------------------------------------------------------
(* The addressing window on the bus. *)

\* Transfer e as <<data/command level, byte>>.
Wire(e) == <<e.dc, e.b>>

\* C18: the window a fillrect call sets goes out as command 0x2A, data
\* 0, x0, 0, x1, command 0x2B, data 0, y0, 0, y1, command 0x2C, one byte
\* per transfer, with no delay and no reset write among them; the colour
\* run is all that follows.
C18_SetWindowSequence ==
    op.name = "fillrect" =>
        LET t == Transfers
            w == fillrect_window(pre, op.args[1], op.args[2], op.args[3], op.args[4])
        IN  /\ Len(t) = 12
            /\ [i \in 1 .. 11 |-> Wire(t[i])]
                 = << <<0, 42>>, <<1, 0>>, <<1, w[1]>>, <<1, 0>>, <<1, w[3]>>,
                      <<0, 43>>, <<1, 0>>, <<1, w[2]>>, <<1, 0>>, <<1, w[4]>>,
                      <<0, 44>> >>
            /\ \A i \in 1 .. 11 : t[i].k = "tx"
            /\ t[12].k = "txrun" /\ t[12].dc = 1
            /\ \A i \in 1 .. Len(self.bus) :
                   /\ self.bus[i].k # "delay"
                   /\ self.bus[i].k = "pin" => self.bus[i].pin \in {"cs", "dc"}

\* A window whose four coordinates all differ.
C18_Witness ==
    /\ op.name = "fillrect"
    /\ \E x \in Windows :
         Cardinality({x.win[1], x.win[2], x.win[3], x.win[4]}) = 4

----------------------------------------------------------------------------
(* Colour data and the window it goes to. *)

\* Transfer i of t is colour data: sent in data mode and not one of the
\* four payload bytes of a column or row command.
IsColorAt(t, i) ==
    /\ t[i].dc = 1
    /\ ~ \E j \in 1 .. 4 :
           /\ i - j >= 1
           /\ t[i - j].dc = 0 /\ t[i - j].b \in {ST_CASET, ST_RASET}
           /\ \A k \in i - j + 1 .. i : t[k].dc = 1

\* C19: in every drawing call each run of colour data comes right after
\* the memory-write command of a window set earlier in that same call:
\* the transfer before the run's first one is the RAMWR that ends a
\* CASET, RASET, RAMWR sequence of the call.
C19_ColorAfterOwnWindow ==
    LET t == Transfers
    IN  \A i \in 1 .. Len(t) :
            (IsColorAt(t, i) /\ (i = 1 \/ ~IsColorAt(t, i - 1))) =>
                /\ i >= 12
                /\ IsWindowAt(t, i - 11)

\* A second drawing call in a row, with several colour runs of its own.
C19_Witness ==
    /\ op.name \in {"circle", "text", "rect", "line"}
    /\ pre.dc = 1
    /\ Cardinality(Windows) >= 3
    /\ \E x \in Windows : x.bytes > 0

----------------------------------------------------------------------------
(* Framing. *)

\* C20: every byte goes out with chip-select low; a byte _writecommand
\* sends goes out with data/command low, every payload or colour byte with
\* it high; and chip-select is high when a call has returned.
C20_Framing ==
    /\ self.cs = 1
    /\ \A i \in 1 .. Len(self.bus) :
           IsTransfer(self.bus[i]) =>
               /\ LevelAt(self.bus, i, "cs", pre.cs) = 0
               /\ LevelAt(self.bus, i, "dc", pre.dc)
                    = (IF self.bus[i].reg = "command" THEN 0 ELSE 1)

\* Scaled text right after an initialisation: colour blocks sent from a
\* state that had data/command low.
C20_Witness ==
    /\ op.name = "text"
    /\ pre.dc = 0
    /\ \E i \in 1 .. Len(self.bus) : self.bus[i].k = "txrun"

----------------------------------------------------------------------------
(* The colour stream. *)

\* C21: the colour stream of an hline or vline call of length n and colour
\* c is one chip-select assertion in data mode holding max(n, 0) repeats of
\* the byte (c >> 8) & 0xFF then the byte c & 0xFF, 2 * max(n, 0) bytes in
\* all and none when n <= 0.
C21_StreamColor ==
    op.name \in {"hline", "vline"} =>
        LET b == self.bus
            n == op.args[3]
            c == op.args[4]
            k == IF n > 0 THEN 4 ELSE 3
            run == [k |-> "txrun", hi |-> (c \div 256) % 256, lo |-> c % 256,
                    n |-> n, reg |-> "data"]
        IN  /\ Len(b) > k
            /\ SubSeq(b, Len(b) - k + 1, Len(b))
                 = <<[k |-> "pin", pin |-> "cs", v |-> 0],
                     [k |-> "pin", pin |-> "dc", v |-> 1]>>
                   \o (IF n > 0 THEN <<run>> ELSE <<>>)
                   \o <<[k |-> "pin", pin |-> "cs", v |-> 1]>>
            /\ \A i \in 1 .. Len(b) - k : b[i].k # "txrun"
            /\ \A x \in Windows : x.bytes = 2 * (IF n > 0 THEN n ELSE 0)

\* A stream of several words, and a call with a negative length.
C21_Witness ==
    /\ op.name = "hline"
    /\ op.args[3] = 2
    /\ \E x \in Windows : x.bytes = 4

C21_WitnessNone ==
    /\ op.name = "vline"
    /\ op.args[3] < 0
    /\ \E x \in Windows : x.bytes = 0

----------------------------------------------------------------------------
(* The address ranges of the initialisation routines. *)

\* The four bytes sent after the one command c of the transfers t.
PayloadOf(t, c) ==
    LET i == CHOOSE j \in 1 .. Len(t) : IsCommand(t[j], c)
    IN  <<t[i + 1].b, t[i + 2].b, t[i + 3].b, t[i + 4].b>>

\* The start offsets of the variants as stated: <<xs, ys>>.
StatedOffset(name) ==
    IF name = "initr" THEN <<0, 0>>
    ELSE IF name = "initg" THEN <<1, 1>>
    ELSE <<2, 1>>

\* C22: an initialisation sends the column range 0, xs, 0, width - 1 and
\* the row range 0, ys, 0, height - 1, with <<xs, ys>> the variant's start
\* offset: red 0, 0; green 1, 1; blue 2, 1.
C22_InitWindowPayload ==
    op.name \in Inits =>
        LET t == Transfers
            o == StatedOffset(op.name)
        IN  /\ PayloadOf(t, ST_CASET) = <<0, o[1], 0, pre.size[1] - 1>>
            /\ PayloadOf(t, ST_RASET) = <<0, o[2], 0, pre.size[2] - 1>>

\* The same for the red and green variants alone.
C22_RedGreenPayload ==
    op.name \in {"initr", "initg"} => C22_InitWindowPayload

----------------------------------------------------------------------------
(* The corners of a filled rectangle. *)

\* <<a, b>> in ascending order.
Ordered(a, b) == IF b < a THEN <<b, a>> ELSE <<a, b>>

\* C23: fillrect clamps the requested origin and the requested far corner
\* (origin + size - 1, from the origin as requested) each on its own, and
\* programs the window between the two, swapped where reversed.
C23_FillRectCorners ==
    op.name = "fillrect" =>
        LET px0 == op.args[1]
            py0 == op.args[2]
            sx == op.args[3]
            sy == op.args[4]
            xs == Ordered(clamp(0, pre.size[1], px0), clamp(0, pre.size[1], px0 + sx - 1))
            ys == Ordered(clamp(0, pre.size[2], py0), clamp(0, pre.size[2], py0 + sy - 1))
        IN  \A x \in Windows : x.win = <<xs[1], ys[1], xs[2], ys[2]>>

----------------------------------------------------------------------------
(* Reversed extents. *)

\* C24: every window an hline, vline, fillrect or fillcircle call programs
\* has x0 <= x1 and y0 <= y1, whatever the position, length, size or
\* radius.
C24_WindowsOrdered ==
    op.name \in {"hline", "vline", "fillrect", "fillcircle"} =>
        \A x \in Windows : x.win[1] <= x.win[3] /\ x.win[2] <= x.win[4]

\* A negative length whose extent was swapped.
C24_Witness ==
    /\ op.name = "hline"
    /\ op.args[3] < 0
    /\ \E x \in Windows : x.win[1] < x.win[3] /\ x.win[3] = op.args[1]

----------------------------------------------------------------------------
(* Filled circles. *)

\* The runs of a filled circle as stated: for x in 0 .. r - 1 one run in
\* column cx + x and one in column cx - x, rows cy - y .. cy + y clipped to
\* 0 .. height - 1, as <<window, colour words>>.
StatedFillRuns(cx, cy, r) ==
    UNION { LET y == sqrtf_int(r * r - x * x)
                lo == clamp(0, Height - 1, cy - y)
                hi == clamp(0, Height - 1, cy + y)
            IN  { << <<cx + x, lo, cx + x, hi>>, hi - lo + 1 >>,
                  << <<cx - x, lo, cx - x, hi>>, hi - lo + 1 >> }
          : x \in 0 .. r - 1 }

\* The runs of the last call, as <<window, colour words>>.
Runs == { <<x.win, x.bytes \div 2>> : x \in Windows }

\* C25: a fillcircle call emits two runs for each x in 0 .. r - 1 and no
\* other: one in column cx + x, one in column cx - x, each one column wide
\* over rows cy - y .. cy + y clipped to the display, y the integer square
\* root of r*r - x*x, with as many colour words as the window has rows.
C25_FillcircleRuns ==
    op.name = "fillcircle" =>
        LET r == op.args[3]
        IN  /\ Cardinality(Windows) = 2 * (IF r > 0 THEN r ELSE 0)
            /\ Runs = StatedFillRuns(op.args[1], op.args[2], r)

\* The same for circles that lie on the display, a margin of one row and
\* column inside its edges.
C25_FillcircleInside ==
    ( /\ op.name = "fillcircle"
      /\ op.args[3] >= 0
      /\ OnScreen(op.args[1] - op.args[3], op.args[2] - op.args[3])
      /\ OnScreen(op.args[1] + op.args[3], op.args[2] + op.args[3]) )
    => C25_FillcircleRuns

----------------------------------------------------------------------------
(* Rectangle outlines. *)

\* The rectangle of the last rect call lies on the display and is at
\* least three cells wide and high.
RectOnScreen ==
    /\ op.name = "rect"
    /\ op.args[3] >= 3 /\ op.args[4] >= 3
    /\ OnScreen(op.args[1], op.args[2])
    /\ OnScreen(op.args[1] + op.args[3] - 1, op.args[2] + op.args[4] - 1)

\* C26: a rect call emits four windows, each followed by its stream: those
\* of an hline of length sx at y + sy - 1, an hline of length sx at y, a
\* vline of length sy at x and a vline of length sy at x + sx - 1, in this
\* order; for a rectangle on the display with sx, sy >= 3 the cells written
\* are those of its outline, none strictly inside.
C26_RectOutline ==
    op.name = "rect" =>
        LET x == op.args[1]
            y == op.args[2]
            sx == op.args[3]
            sy == op.args[4]
            c == op.args[5]
        IN  /\ Cardinality(Windows) = 4
            /\ self.bus = pyb_tft_hline(pre, x, y + sy - 1, sx, c)
                          \o pyb_tft_hline(pre, x, y, sx, c)
                          \o pyb_tft_vline(pre, x, y, sy, c)
                          \o pyb_tft_vline(pre, x + sx - 1, y, sy, c)
            /\ RectOnScreen =>
                 Plotted = { p \in (x .. x + sx - 1) \X (y .. y + sy - 1) :
                               \/ p[1] \in {x, x + sx - 1}
                               \/ p[2] \in {y, y + sy - 1} }

\* An outline with an interior, away from the display's corner.
C26_Witness ==
    /\ RectOnScreen
    /\ op.args[3] = 3 /\ op.args[4] = 4
    /\ <<op.args[1] + 1, op.args[2] + 1>> \notin Plotted
    /\ <<op.args[1] + 2, op.args[2] + 3>> \in Plotted

----------------------------------------------------------------------------
(* Scaled text. *)

\* The last call drew text with a scale above one.
ScaledText ==
    /\ op.name = "text"
    /\ (op.args[6][1] > 1 \/ op.args[6][2] > 1)

\* The set bits of the glyph of codepoint ch, as <<i, j>>: column i, row j.
SetBits(font, ch) ==
    IF ~InFont(font, ch) THEN {}
    ELSE { b \in (0 .. font.width - 1) \X (0 .. font.height - 1) :
             (font.data[(ch - font.start) * font.width + b[1] + 1]
                \div (2 ^ b[2])) % 2 = 1 }

\* The window set_window transmits for the block of bit b of a glyph at
\* (x, y): its four coordinates, each in one byte.
BlockWindow(x, y, sx, sy, b) ==
    <<Byte(x + b[1] * sx), Byte(y + b[2] * sy),
      Byte(x + b[1] * sx + sx - 1), Byte(y + b[2] * sy + sy - 1)>>

\* The windows among ws that come before window w on the bus.
Earlier(ws, w) == { v \in ws : v.i < w.i }

\* C27: in scaled text the glyph at the origin gets, for each of its set
\* bits (i, j) and for no other, exactly one window
\* (x + i*sx, y + j*sy, x + i*sx + sx - 1, y + j*sy + sy - 1) followed by
\* exactly sx * sy colour words, columns first and rows within a column; a
\* one-character text has as many windows as its glyph has set bits.
C27_ScaledBlocks ==
    ScaledText /\ Len(op.args[3]) >= 1 =>
        LET ws == Windows
            x == op.args[1]
            y == op.args[2]
            font == op.args[5]
            sx == op.args[6][1]
            sy == op.args[6][2]
            bits == SetBits(font, op.args[3][1])
            first == { w \in ws : Cardinality(Earlier(ws, w)) < Cardinality(bits) }
        IN  /\ Cardinality(ws) >= Cardinality(bits)
            /\ Len(op.args[3]) = 1 => Cardinality(ws) = Cardinality(bits)
            /\ \A w \in first :
                 /\ w.bytes = 2 * sx * sy
                 /\ \E b \in bits :
                      /\ w.win = BlockWindow(x, y, sx, sy, b)
                      /\ Cardinality(Earlier(ws, w))
                           = Cardinality({ a \in bits :
                                 a[1] < b[1] \/ (a[1] = b[1] /\ a[2] < b[2]) })

\* A one-character scaled text whose blocks leave the byte range of a
\* window coordinate.
C27_Witness ==
    /\ ScaledText
    /\ Len(op.args[3]) = 1
    /\ Cardinality(Windows) = 3
    /\ op.args[2] + 2 * op.args[6][2] > 255

----------------------------------------------------------------------------
(* The Bresenham loop. *)

\* The last call is a line between on-screen endpoints that differ in x
\* and in y: every pixel() call of the loop shows as one window.
SlantedOnScreen ==
    /\ LineOnScreen
    /\ op.args[1] # op.args[3]
    /\ op.args[2] # op.args[4]

C28_AtMost ==
    ( /\ op.name = "line"
      /\ op.args[1] # op.args[3]
      /\ op.args[2] # op.args[4] )
    => LET adx == absint(op.args[3] - op.args[1])
           ady == absint(op.args[4] - op.args[2])
       IN  Cardinality(Windows) <= (IF adx >= ady THEN adx ELSE ady)

----------------------------------------------------------------------------
(* The display state over the life of the object. *)

\* C29: rotation is one of 0, 1, 2, 3 (the argument masked to two bits),
\* (width, height) is (128, 160) when it is even and (160, 128) when it is
\* odd, and no call other than rotation changes width, height or rotation.
C29_RotationInvariant ==
    /\ self.rotate \in 0 .. 3
    /\ self.size = (IF self.rotate % 2 = 0 THEN <<128, 160>> ELSE <<160, 128>>)
    /\ op.name = "rotation" => self.rotate = op.args[1] % 4
    /\ op.name # "rotation" =>
         self.size = pre.size /\ self.rotate = pre.rotate

\* An initialisation in landscape, after a rotation whose argument lies
\* outside 0 .. 3.
C29_Witness ==
    /\ op.name \in {"initr", "initg", "initb"}
    /\ hist.name = "rotation"
    /\ self.rotate = 3
    /\ self.size = <<160, 128>>

----------------------------------------------------------------------------
(* The controller's MADCTL register and the display state. *)

\* C30: once an initialisation has completed, after any further rotation,
\* rgb and initialisation calls the most recent MADCTL payload written is
\* TFTRotations[rotation] | colorbit for the current state, colorbit 0x00
\* when the rgb flag is set and 0x08 otherwise; an rgb call that changes
\* nothing writes nothing and leaves this in place.
C30_MADCTLTracksState ==
    lcd.inited =>
        lcd.madctl = BitOr(TFTRotations[self.rotate + 1],
                           IF self.rgb # 0 THEN 0 ELSE 8)

\* After an initialisation, an rgb call that repeats the present order in
\* a rotation other than 0: nothing is written, the register still agrees.
C30_Witness ==
    /\ lcd.inited
    /\ op.name = "rgb"
    /\ self.bus = <<>>
    /\ self.rgb = 0
    /\ self.rotate = 1
    /\ lcd.madctl = 104

====
